---------------------------- MODULE Spec2Model ----------------------------
(***************************************************************************)
(* Model of CannyFilter.forward (canny.py): Sobel gradients or externally  *)
(* supplied gradients, magnitude / orientation, non maximum suppression in *)
(* four paired passes, dual thresholds and single pass hysteresis.         *)
(*                                                                         *)
(* Number representation.  All planes hold integers.                       *)
(*   - grad_x, grad_y hold numerators over the common denominator den      *)
(*     (the Sobel weights are multiples of 1/2, and line 154 divides by C, *)
(*     which multiplies den by C).                                         *)
(*   - grad_magnitude and thin_edges hold m2 = gx^2 + gy^2 of the          *)
(*     numerators; the tensor value is sqrt(m2)/den.  x |-> sqrt(x)/den is *)
(*     strictly increasing, so every comparison the code makes on these    *)
(*     tensors is made here on m2 (see Gt and directional).                *)
(*   - grad_orientation holds degrees, or NaN.                             *)
(*   - thresholds are integers, or None.                                   *)
(*   - the classification plane (edges) holds numerators over 2, so        *)
(*     0, 0.5, 1, 2 are stored as 0, 1, 2, 4.                              *)
(***************************************************************************)
EXTENDS Integers, FiniteSets, Sequences, TLC

\* ------------------------------------------------------------------ bounds
\* image height
H == 2
\* image width
W == 2
\* largest channel count C of an input image
MaxC == 2
\* largest sum of the samples of an input image plane
MaxMass == 3
\* largest sum of the samples of the supplied planes grad_x_sa and grad_y_sa
MaxSaMass == 2
\* largest threshold (thresholds are 0 .. MaxThr)
MaxThr == 2

\* --------------------------------------------------------- program values
\* Python's None (default of low_threshold / high_threshold)
None == -1
\* float NaN, the result of atan(0/0)
NaN == -1000
\* default k_sobel
k_sobel == 3
\* common denominator of the entries of get_sobel_kernel(3)
SobelDen == 2

VARIABLES pc, img, use_sa, grad_x_sa, grad_y_sa, grad_x, grad_y, den,
          grad_magnitude, grad_orientation, thin_edges, pending,
          low_threshold, high_threshold, hysteresis, edges, out_kind

vars == <<pc, img, use_sa, grad_x_sa, grad_y_sa, grad_x, grad_y, den,
          grad_magnitude, grad_orientation, thin_edges, pending,
          low_threshold, high_threshold, hysteresis, edges, out_kind>>

\* ---------------------------------------------------------------- helpers
Pix == (0 .. H - 1) \X (0 .. W - 1)

Zeros == [p \in Pix |-> 0]

Abs(x) == IF x < 0 THEN -x ELSE x

Sgn(x) == IF x < 0 THEN -1 ELSE IF x > 0 THEN 1 ELSE 0

Min2(a, b) == IF a <= b THEN a ELSE b

Max2(a, b) == IF a >= b THEN a ELSE b

\* bool * 1
B2I(b) == IF b THEN 1 ELSE 0

\* the functions from Cells to the naturals whose values sum to at most m
RECURSIVE SamplesUpTo(_, _)
SamplesUpTo(Cells, m) ==
  IF m = 0 THEN {[c \in Cells |-> 0]}
  ELSE LET R == SamplesUpTo(Cells, m - 1)
       IN  R \cup {[f EXCEPT ![c] = @ + 1] : f \in R, c \in Cells}

\* zero padded read of a plane
At(plane, r, c) ==
  IF r \in 0 .. H - 1 /\ c \in 0 .. W - 1 THEN plane[<<r, c>>] ELSE 0

\* window of a 3x3 kernel, as <<row offset, column offset>>
Window == (-(k_sobel \div 2) .. (k_sobel \div 2)) \X (-(k_sobel \div 2) .. (k_sobel \div 2))

\* nn.Conv2d (cross-correlation) with a 3x3 kernel, one input and one output
\* channel, padding 1, no bias; K is the weight as a function of the offset
ConvAt(K, plane, p) ==
  LET T(dy, dx) == K[<<dy, dx>>] * At(plane, p[1] + dy, p[2] + dx)
  IN  T(-1, -1) + T(-1, 0) + T(-1, 1)
      + T(0, -1) + T(0, 0) + T(0, 1)
      + T(1, -1) + T(1, 0) + T(1, 1)

Conv2d(K, plane) == [p \in Pix |-> ConvAt(K, plane, p)]

\* ------------------------------------------------------------ kernel table
\* get_sobel_kernel(3): x / (x^2 + y^2), the column x = 0 divided by 1,
\* as numerators over SobelDen; o = <<y, x>>
get_sobel_kernel ==
  [o \in Window |->
     IF o[2] = 0 THEN 0 ELSE (SobelDen * o[2]) \div (o[2] * o[2] + o[1] * o[1])]

sobel_filter_x == get_sobel_kernel

\* the transposed kernel
sobel_filter_y == [o \in Window |-> get_sobel_kernel[<<o[2], o[1]>>]]

\* get_thin_kernels(): kernel d (angle 45 d degrees, counter-clockwise with the
\* row axis pointing down) is +1 at the centre and -1 at the neighbour in
\* direction d; thin_offset[d] is that neighbour's <<row, column>> offset
thin_offset ==
  [d \in 0 .. 7 |->
     CASE d = 0 -> <<0, 1>>
       [] d = 1 -> <<-1, 1>>
       [] d = 2 -> <<-1, 0>>
       [] d = 3 -> <<-1, -1>>
       [] d = 4 -> <<0, -1>>
       [] d = 5 -> <<1, -1>>
       [] d = 6 -> <<1, 0>>
       [] d = 7 -> <<1, 1>>]

\* self.directional_filter(grad_magnitude)[:, d] at pixel p: the correlation
\* with kernel d, whose only non-zero weights are +1 at the centre and -1 at
\* thin_offset[d].  The tensor value is (sqrt(mag[p]) - sqrt(mag[q])) / den for
\* the neighbour q; the correlation is taken on m2, which has the same sign.
directional(mag, d, p) ==
  1 * mag[p] + (-1) * At(mag, p[1] + thin_offset[d][1], p[2] + thin_offset[d][2])

\* faulty variant of hysteresis_kernel: np.ones((3, 3)) without the + 0.25
hysteresis_kernel_ones == [o \in Window |-> 4]

\* the hysteresis kernel np.ones((3, 3)) + 0.25, as numerators over 4
hysteresis_kernel == [o \in Window |-> 4 + 1]

\* -------------------------------------------------------------- thick edges
\* (grad_x ** 2 + grad_y ** 2) ** 0.5, kept as m2
Magnitude(gx, gy) == [p \in Pix |-> gx[p] * gx[p] + gy[p] * gy[p]]

\* tangents (times 10^6) of 11.25, 33.75, 56.25 and 78.75 degrees: the angles
\* theta at which round(theta * (360 / pi) / 45) steps to the next integer
TanSteps == <<198912, 668179, 1496606, 5027339>>

\* round(torch.atan(y / x) * (360 / pi) / 45) under IEEE division:
\* 0/0 is NaN, y/0 is +-inf and its arctangent +-pi/2
AtanRound(y, x) ==
  IF x = 0 /\ y = 0 THEN NaN
  ELSE IF x = 0 THEN Sgn(y) * Len(TanSteps)
  ELSE Sgn(y) * Sgn(x)
         * Cardinality({i \in DOMAIN TanSteps : Abs(y) * 1000000 > TanSteps[i] * Abs(x)})

\* lines 156-158: round((atan(gy / gx) * (360 / pi) + 180) / 45) * 45
Orientation(gx, gy) ==
  [p \in Pix |->
     LET n == AtanRound(gy[p], gx[p])
     IN  IF n = NaN THEN NaN ELSE (n + 4) * 45]

\* --------------------------------------------------------------- thin edges
\* (grad_orientation / 45) % 8; NaN stays NaN
positive_idx(o) == IF o = NaN THEN NaN ELSE (o \div 45) % 8

\* ((grad_orientation / 45) + 4) % 8
negative_idx(o) == IF o = NaN THEN NaN ELSE ((o \div 45) + 4) % 8

\* (positive_idx == pos_i) * 1 + (positive_idx == neg_i) * 1
is_oriented_i(o, pos_i) ==
  B2I(positive_idx(o) = pos_i) + B2I(positive_idx(o) = pos_i + 4)

\* faulty variant of is_max: max in place of min
is_max_either(mag, pos_i, p) ==
  Max2(directional(mag, pos_i, p), directional(mag, pos_i + 4, p)) > 0

\* selected_direction.min(dim=0)[0] > 0.0
is_max(mag, pos_i, p) ==
  Min2(directional(mag, pos_i, p), directional(mag, pos_i + 4, p)) > 0

\* (is_max == 0) * 1 * (is_oriented_i) > 0
to_remove(mag, orient, pos_i, p) ==
  B2I(~is_max(mag, pos_i, p)) * 1 * is_oriented_i(orient[p], pos_i) > 0

\* faulty variant of SuppressPass: the directional responses are taken from the
\* plane being thinned in place of the magnitude plane
SuppressPassInPlace(thin, mag, orient, pos_i) ==
  [p \in Pix |-> IF to_remove(thin, orient, pos_i, p) THEN 0 ELSE thin[p]]

\* one iteration of the loop of line 167: thin_edges[to_remove] = 0.0
SuppressPass(thin, mag, orient, pos_i) ==
  [p \in Pix |-> IF to_remove(mag, orient, pos_i, p) THEN 0 ELSE thin[p]]

\* --------------------------------------------------------------- thresholds
\* faulty variant of Gt: >= in place of >
GtOrEqual(m2, thr, d) == thr <= 0 \/ m2 >= thr * thr * d * d

\* thin_edges > threshold: sqrt(m2) / d > thr
Gt(m2, thr, d) == thr < 0 \/ m2 > thr * thr * d * d

\* faulty variant of low_mask: >= in place of >
low_mask_ge(thin, lo, d) == [p \in Pix |-> GtOrEqual(thin[p], lo, d)]

\* low = thin_edges > low_threshold
low_mask(thin, lo, d) == [p \in Pix |-> Gt(thin[p], lo, d)]

\* high = thin_edges > high_threshold
high_mask(thin, hi, d) == [p \in Pix |-> Gt(thin[p], hi, d)]

\* low * 0.5 + high * 0.5, as numerators over 2
Classify(thin, lo, hi, d) ==
  LET low  == low_mask(thin, lo, d)
      high == high_mask(thin, hi, d)
  IN  [p \in Pix |-> B2I(low[p]) + B2I(high[p])]

\* weak = (thin_edges == 0.5) * 1
weak(cls) == [p \in Pix |-> B2I(cls[p] = 1) * 1]

\* (self.hysteresis(thin_edges) > 1) * weak; the correlation of numerators over
\* 2 with numerators over 4 is a numerator over 8
weak_is_high(cls) ==
  LET w == weak(cls)
  IN  [p \in Pix |-> B2I(ConvAt(hysteresis_kernel, cls, p) > 8) * w[p]]

\* high * 1 + weak_is_high * 1, as numerators over 2
Promote(thin, cls, hi, d) ==
  LET high == high_mask(thin, hi, d)
      wih  == weak_is_high(cls)
  IN  [p \in Pix |-> 2 * (B2I(high[p]) * 1 + wih[p] * 1)]

\* low * 1, as numerators over 2
LowOnly(thin, lo, d) ==
  LET low == low_mask(thin, lo, d)
  IN  [p \in Pix |-> 2 * (B2I(low[p]) * 1)]

\* ------------------------------------------------------------------ inputs
Thresholds == {None} \cup (0 .. MaxThr)

\* the image of C channels that carries the plane gray in every channel
ImageOf(C, gray) == [c \in 1 .. C |-> gray]

\* plane k (1: grad_x_sa, 2: grad_y_sa) of the supplied samples f
PlaneOf(k, f) == [p \in Pix |-> f[<<k, p>>]]

\* sum over the channels of the Sobel responses (loop of lines 142-146)
RECURSIVE SobelSum(_, _, _)
SobelSum(K, image, c) ==
  IF c = 0 THEN Zeros
  ELSE LET prev == SobelSum(K, image, c - 1)
           res  == Conv2d(K, image[c])
       IN  [p \in Pix |-> prev[p] + res[p]]

\* ------------------------------------------------------------------- state
Init ==
  /\ pc = "idle"
  /\ img = <<>>
  /\ use_sa = FALSE
  /\ grad_x_sa = Zeros
  /\ grad_y_sa = Zeros
  /\ grad_x = Zeros
  /\ grad_y = Zeros
  /\ den = 1
  /\ grad_magnitude = Zeros
  /\ grad_orientation = Zeros
  /\ thin_edges = Zeros
  /\ pending = {}
  /\ low_threshold = None
  /\ high_threshold = None
  /\ hysteresis = FALSE
  /\ edges = Zeros
  /\ out_kind = "none"

\* forward(img, ..., use_sa, grad_x_sa, grad_y_sa) is entered: lines 131-135.
\* The images are gray images replicated over C channels.  Without use_sa the
\* supplied planes keep their default 0; with use_sa the image is read for
\* its shape only, so an all-zero image is passed.
Call ==
  /\ pc = "idle"
  /\ \E C \in 1 .. MaxC, sa \in BOOLEAN :
       /\ use_sa' = sa
       /\ IF sa
            THEN \E f \in SamplesUpTo({1, 2} \X Pix, MaxSaMass) :
                   /\ img' = ImageOf(C, Zeros)
                   /\ grad_x_sa' = PlaneOf(1, f)
                   /\ grad_y_sa' = PlaneOf(2, f)
            ELSE \E gray \in SamplesUpTo(Pix, MaxMass) :
                   /\ img' = ImageOf(C, gray)
                   /\ grad_x_sa' = Zeros
                   /\ grad_y_sa' = Zeros
  /\ grad_x' = Zeros
  /\ grad_y' = Zeros
  /\ grad_magnitude' = Zeros
  /\ grad_orientation' = Zeros
  /\ pc' = "sobel"
  /\ UNCHANGED <<den, thin_edges, pending, low_threshold, high_threshold,
                 hysteresis, edges, out_kind>>

\* lines 138-140: the supplied planes (integers, denominator 1) are taken
SobelSA ==
  /\ pc = "sobel"
  /\ use_sa
  /\ grad_x' = grad_x_sa
  /\ grad_y' = grad_y_sa
  /\ den' = 1
  /\ pc' = "thick"
  /\ UNCHANGED <<img, use_sa, grad_x_sa, grad_y_sa, grad_magnitude,
                 grad_orientation, thin_edges, pending, low_threshold,
                 high_threshold, hysteresis, edges, out_kind>>

\* lines 141-151: the Sobel responses of the channels are summed
SobelPython ==
  /\ pc = "sobel"
  /\ ~use_sa
  /\ LET sx == SobelSum(sobel_filter_x, img, Len(img))
         sy == SobelSum(sobel_filter_y, img, Len(img))
     IN  /\ grad_x' = [p \in Pix |-> grad_x[p] + sx[p]]
         /\ grad_y' = [p \in Pix |-> grad_y[p] + sy[p]]
  /\ den' = SobelDen
  /\ pc' = "thick"
  /\ UNCHANGED <<img, use_sa, grad_x_sa, grad_y_sa, grad_magnitude,
                 grad_orientation, thin_edges, pending, low_threshold,
                 high_threshold, hysteresis, edges, out_kind>>

\* lines 154-158: division by C (on either branch), magnitude, orientation
ThickEdges ==
  /\ pc = "thick"
  /\ den' = den * Len(img)
  /\ grad_magnitude' = Magnitude(grad_x, grad_y)
  /\ grad_orientation' = Orientation(grad_x, grad_y)
  /\ pc' = "thin"
  /\ UNCHANGED <<img, use_sa, grad_x_sa, grad_y_sa, grad_x, grad_y, thin_edges,
                 pending, low_threshold, high_threshold, hysteresis, edges,
                 out_kind>>

\* lines 161-165: thin_edges = grad_magnitude.clone()
ThinSetup ==
  /\ pc = "thin"
  /\ thin_edges' = grad_magnitude
  /\ pending' = 0 .. 3
  /\ pc' = "nms"
  /\ UNCHANGED <<img, use_sa, grad_x_sa, grad_y_sa, grad_x, grad_y, den,
                 grad_magnitude, grad_orientation, low_threshold,
                 high_threshold, hysteresis, edges, out_kind>>

\* the body of the loop of lines 167-180 for pos_i
Pass(pos_i) ==
  /\ pc = "nms"
  /\ pos_i \in pending
  /\ thin_edges' = SuppressPass(thin_edges, grad_magnitude, grad_orientation, pos_i)
  /\ pending' = pending \ {pos_i}
  /\ UNCHANGED <<pc, img, use_sa, grad_x_sa, grad_y_sa, grad_x, grad_y, den,
                 grad_magnitude, grad_orientation, low_threshold,
                 high_threshold, hysteresis, edges, out_kind>>

\* for pos_i in range(4): the passes run in increasing order
NMSPass == \E pos_i \in pending : (\A j \in pending : pos_i <= j) /\ Pass(pos_i)

\* the passes taken in an arbitrary order
NMSPassAny == \E pos_i \in pending : Pass(pos_i)

\* lines 183-196, with the arguments low_threshold, high_threshold and
\* hysteresis drawn where the code first reads them
Classification ==
  /\ pc = "nms"
  /\ pending = {}
  /\ \E lo \in Thresholds, hi \in Thresholds, hy \in BOOLEAN :
       /\ low_threshold' = lo
       /\ high_threshold' = hi
       /\ hysteresis' = hy
       /\ IF lo # None
            THEN /\ out_kind' = "class"
                 /\ IF hi # None
                      THEN LET cls == Classify(thin_edges, lo, hi, den)
                           IN  IF hy
                                 THEN edges' = Promote(thin_edges, cls, hi, den)
                                 ELSE edges' = cls
                      ELSE edges' = LowOnly(thin_edges, lo, den)
            ELSE /\ out_kind' = "magnitude"
                 /\ edges' = thin_edges
  /\ pc' = "return"
  /\ UNCHANGED <<img, use_sa, grad_x_sa, grad_y_sa, grad_x, grad_y, den,
                 grad_magnitude, grad_orientation, thin_edges, pending>>

Next ==
  \/ Call
  \/ SobelSA
  \/ SobelPython
  \/ ThickEdges
  \/ ThinSetup
  \/ NMSPass
  \/ Classification

Spec == Init /\ [][Next]_vars

\* forward up to the end of the loop of line 167, its four passes taken in
\* every order
NextAny ==
  \/ Call
  \/ SobelSA
  \/ SobelPython
  \/ ThickEdges
  \/ ThinSetup
  \/ NMSPassAny

SpecAny == Init /\ [][NextAny]_vars

\* ------------------------------------------------------------- properties
Returned == pc = "return"

Canonical == {0, 45, 90, 135, 180, 225, 270, 315}

\* C1: every pixel of the orientation plane returned by forward is one of
\* 0, 45, ..., 315 (never 360, never an undefined value).
C1_OrientationCanonical ==
  Returned => \A p \in Pix : grad_orientation[p] \in Canonical

\* tangents (times 10^6) of 22.5 and 67.5 degrees: the angles theta at which
\* round(theta * (180 / pi) / 45) steps to the next integer
TanSteps180 == <<414214, 2414214>>

\* round((theta_in_degrees + 180) / 45) * 45 mod 360 for theta = atan(y / x)
ClaimedOrientation(y, x) ==
  LET n == IF x = 0 THEN Sgn(y) * Len(TanSteps180)
           ELSE Sgn(y) * Sgn(x)
                  * Cardinality({i \in DOMAIN TanSteps180 :
                                   Abs(y) * 1000000 > TanSteps180[i] * Abs(x)})
  IN  ((n + 4) * 45) % 360

\* C2: wherever the gradient angle is defined, the orientation is
\* round((theta * 180 / pi + 180) / 45) * 45 mod 360.
C2_OrientationAdds180ToDegrees ==
  Returned =>
    \A p \in Pix :
      (grad_x[p] # 0 \/ grad_y[p] # 0)
        => grad_orientation[p] = ClaimedOrientation(grad_y[p], grad_x[p])

\* C3: with use_sa the returned grad_x and grad_y equal grad_x_sa and
\* grad_y_sa (whose denominator is 1) for every channel count.
C3_SuppliedGradientsUnchanged ==
  (Returned /\ use_sa) =>
    \A p \in Pix : /\ grad_x[p] = grad_x_sa[p] * den
                   /\ grad_y[p] = grad_y_sa[p] * den

\* C4: a call with high_threshold set and low_threshold absent does not
\* return a plane; it fails.
C4_HighWithoutLowFails ==
  ~(Returned /\ low_threshold = None /\ high_threshold # None)

\* C5: with both thresholds and hysteresis, every pixel of the final plane
\* is 0 or 1 (numerators 0 or 2 over 2).
C5_HysteresisPlaneBinary ==
  (Returned /\ low_threshold # None /\ high_threshold # None /\ hysteresis)
    => \A p \in Pix : edges[p] \in {0, 2}

\* thin_edges[p] > thr, on the tensor value sqrt(thin_edges[p]) / den
Above(p, thr) == thin_edges[p] > thr * thr * den * den

\* C6 as stated: with both thresholds, no hysteresis and low >= high, no
\* pixel of the classification plane is 0.5.
C6_NoWeakBandWhenLowGeHigh ==
  (Returned /\ low_threshold # None /\ high_threshold # None /\ ~hysteresis
     /\ low_threshold >= high_threshold)
    => \A p \in Pix : edges[p] \in {0, 2}

\* C6 as amended: with both thresholds, no hysteresis and low >= high, a
\* pixel is 0.5 exactly when high < t <= low, it is 1 when t > low and 0 when
\* t <= high; so no pixel is 0.5 when the two thresholds are equal.
C6_WeakBandIsBetweenHighAndLow ==
  (Returned /\ low_threshold # None /\ high_threshold # None /\ ~hysteresis
     /\ low_threshold >= high_threshold)
    => \A p \in Pix :
         /\ edges[p] = 1 <=> (Above(p, high_threshold) /\ ~Above(p, low_threshold))
         /\ edges[p] = 2 <=> Above(p, low_threshold)
         /\ edges[p] = 0 <=> ~Above(p, high_threshold)
         /\ (low_threshold = high_threshold => edges[p] # 1)

\* C6 witness: low > high, one pixel in the 0.5 band between them and one
\* pixel exactly at the low threshold
C6_Witness ==
  /\ Returned /\ low_threshold # None /\ high_threshold # None /\ ~hysteresis
  /\ low_threshold > high_threshold
  /\ \E p \in Pix : edges[p] = 1
  /\ \E p \in Pix : thin_edges[p] = low_threshold * low_threshold * den * den

\* C7: without hysteresis each pixel is classified from its own thin_edges
\* value t: with low < high, 0 iff t <= low, 0.5 iff low < t <= high, 1 iff
\* t > high; with low alone, 1 iff t > low, else 0; without low the thin_edges
\* plane is returned unchanged.
C7_ThresholdBands ==
  Returned =>
    /\ (low_threshold # None /\ high_threshold # None /\ ~hysteresis
          /\ low_threshold < high_threshold)
         => \A p \in Pix :
              /\ edges[p] \in {0, 1, 2}
              /\ edges[p] = 0 <=> ~Above(p, low_threshold)
              /\ edges[p] = 1 <=> (Above(p, low_threshold) /\ ~Above(p, high_threshold))
              /\ edges[p] = 2 <=> Above(p, high_threshold)
    /\ (low_threshold # None /\ high_threshold = None)
         => \A p \in Pix : edges[p] = IF Above(p, low_threshold) THEN 2 ELSE 0
    /\ low_threshold = None => (edges = thin_edges /\ out_kind = "magnitude")

\* C7 witness: low < high without hysteresis, a weak and a strong pixel, and
\* a pixel exactly at a threshold
C7_Witness ==
  /\ Returned /\ low_threshold # None /\ high_threshold # None /\ ~hysteresis
  /\ low_threshold < high_threshold
  /\ \E p, q, r \in Pix : edges[p] = 1 /\ edges[q] = 2 /\ edges[r] = 0
  /\ \E p \in Pix : thin_edges[p] = high_threshold * high_threshold * den * den

\* the four passes are over
Thinned == (pc = "nms" /\ pending = {}) \/ Returned

\* C8: after the four passes a pixel with bin index b = (orientation / 45)
\* mod 8 is 0 if min(directional[b mod 4], directional[(b mod 4) + 4]) <= 0
\* and keeps its magnitude otherwise; a pixel that matches no pass keeps its
\* magnitude; a pass writes nothing but 0, into a copy: the magnitude plane
\* stays the one computed from the gradients.
C8_ThinningResult ==
  /\ Thinned =>
       \A p \in Pix :
         LET o == grad_orientation[p]
             b == (o \div 45) % 8
         IN  IF o = NaN
               THEN thin_edges[p] = grad_magnitude[p]
               ELSE IF Min2(directional(grad_magnitude, b % 4, p),
                            directional(grad_magnitude, (b % 4) + 4, p)) <= 0
                      THEN thin_edges[p] = 0
                      ELSE thin_edges[p] = grad_magnitude[p]
  /\ pc \in {"nms", "return"} =>
       /\ \A p \in Pix : thin_edges[p] \in {0, grad_magnitude[p]}
       /\ grad_magnitude = [p \in Pix |-> grad_x[p] * grad_x[p] + grad_y[p] * grad_y[p]]

\* C8 witness: the passes are over, one pixel was suppressed although one of
\* its two directional responses is positive, another kept its magnitude
C8_Witness ==
  /\ Thinned
  /\ \E p \in Pix :
       /\ grad_magnitude[p] > 0 /\ thin_edges[p] = 0
       /\ \E d \in 0 .. 7 :
            /\ positive_idx(grad_orientation[p]) % 4 = d % 4
            /\ directional(grad_magnitude, d, p) > 0
  /\ \E q \in Pix : thin_edges[q] > 0

\* the passes of Done applied in increasing order to the plane thin
RECURSIVE InOrder(_, _, _)
InOrder(thin, Done, n) ==
  IF n = 0 THEN thin
  ELSE LET prev == InOrder(thin, Done, n - 1)
       IN  IF (n - 1) \in Done
             THEN SuppressPass(prev, grad_magnitude, grad_orientation, n - 1)
             ELSE prev

\* C9: a pixel with bin index in 0..7 is oriented in exactly one pass, the
\* pass bin mod 4, and the passes commute: taken in any order, the passes
\* made so far leave the plane that the same passes leave in increasing order.
C9_PassesCommute ==
  pc = "nms" =>
    /\ \A p \in Pix :
         grad_orientation[p] # NaN =>
           {i \in 0 .. 3 : is_oriented_i(grad_orientation[p], i) > 0}
             = {((grad_orientation[p] \div 45) % 8) % 4}
    /\ thin_edges = InOrder(grad_magnitude, (0 .. 3) \ pending, 4)

\* C9 witness: a pass ran before a lower numbered one and suppressed a pixel,
\* and the lower numbered pass has another pixel to suppress
C9_Witness ==
  /\ pc = "nms"
  /\ \E i \in pending, j \in (0 .. 3) \ pending :
       /\ i < j
       /\ \E p \in Pix : /\ to_remove(grad_magnitude, grad_orientation, j, p)
                         /\ grad_magnitude[p] > 0
                         /\ thin_edges[p] = 0
       /\ \E q \in Pix : /\ to_remove(grad_magnitude, grad_orientation, i, q)
                         /\ grad_magnitude[q] > 0
                         /\ thin_edges[q] > 0

\* classification of pixel p by the two thresholds: 0, 1 (weak) or 2 (strong)
Band(p) ==
  IF Above(p, high_threshold) THEN 2 ELSE IF Above(p, low_threshold) THEN 1 ELSE 0

\* the in-bounds 8 neighbours of p
Neighbours(p) ==
  {q \in Pix : q # p /\ Abs(q[1] - p[1]) <= 1 /\ Abs(q[2] - p[2]) <= 1}

\* C10: with low < high and hysteresis, a weak pixel is 1 in the final plane
\* iff one of its in-bounds 8 neighbours is weak or strong in the
\* classification plane, and 0 otherwise.
C10_WeakPromotion ==
  (Returned /\ low_threshold # None /\ high_threshold # None /\ hysteresis
     /\ low_threshold < high_threshold)
    => \A p \in Pix :
         Band(p) = 1 =>
           /\ edges[p] \in {0, 2}
           /\ edges[p] = 2 <=> \E q \in Neighbours(p) : Band(q) # 0

\* C10 witness: a weak pixel whose only non-zero neighbours are weak is
\* promoted
C10_Witness ==
  /\ Returned /\ low_threshold # None /\ high_threshold # None /\ hysteresis
  /\ low_threshold < high_threshold
  /\ \E p \in Pix :
       /\ Band(p) = 1
       /\ \A q \in Neighbours(p) : Band(q) # 2
       /\ \E q \in Neighbours(p) : Band(q) = 1
       /\ edges[p] = 2

=============================================================================
